---------------------------- MODULE Spec2Model ----------------------------
(***************************************************************************)
(* A model of the Patient-bmi-web front end: the vitals form, the two      *)
(* assessment forms, the backend collections they read and write, and the  *)
(* response normalizer extractArrayFromResponse.                           *)
(*                                                                         *)
(* Numbers: a BMI is held in tenths (25.0 is 250), a weight in tenths of a *)
(* kilogram, a height in whole centimetres.  Calendar dates are the ISO    *)
(* strings the forms send; "" is the cleared date field.  The browser's    *)
(* local date and its UTC date are taken to be the same day.               *)
(***************************************************************************)
EXTENDS Integers, Sequences, FiniteSets, TLC

VARIABLES
    vitalsBuild,    \* which VitalsForm source is built: "part_004" or "VitalsForm.tsx"
    route,          \* the mounted page: "listing", "vitals", "general", "overweight"
    nav,            \* location.state of the mounted page: [patient, hasBmi, bmi]
    patientUUID,    \* part_004 VitalsForm: TRUE once a valid UUID is resolved
    fetch,          \* the mounted form's read: "idle", "lookup", "inflight", "done", "failed"
    existingDates,  \* the mounted form's existingDates state
    isSubmitting,   \* the mounted form's isSubmitting / loading flag
    error,          \* the mounted form's error state: the set of messages shown
    creates,        \* create requests in flight
    dbVitals,       \* backend: vitals records of the patient, in creation order
    dbGeneral,      \* backend: General assessments (visit dates), in creation order
    dbOverweight,   \* backend: Overweight assessments (visit dates), in creation order
    payload,        \* normalizer: the response body handed to the extractors
    extracted,      \* normalizer: which normalizer ran, and the list it returned
    listingBuild,   \* which PatientListing source is built: "first" or "second"
    patientsDb,     \* backend: the patients and their records, as getPatients lists them
    fetches,        \* PatientListing.fetchPatients under way: each patient's sub-fetches
    failures,       \* sub-fetches of the listing that have failed so far
    listing,        \* PatientListing: the patients state last set
    previous,       \* PatientListing: the patients state of the build before
    details,        \* PatientDetails: latestVitals and the newest assessment
    building,       \* PatientListing: fetchPatients is running
    built,          \* PatientListing: how many times fetchPatients has set patients
    formData,       \* the form on screen: the field values last submitted
    measured,       \* VitalsForm: the height and weight the BMI is computed of
    computed,       \* VitalsForm: the BMI and status computed of them
    patientsApi,    \* backend: its answers to the patient_id query and to getPatients
    lookup,         \* part_004 VitalsForm: fetchRealPatientData and the creates sent
    view,           \* PatientListing: patients, filteredPatients, the date filter, loading
    dated           \* a date guard on its own: the records fetched and the dates kept

formVars == <<patientUUID, fetch, existingDates, isSubmitting, error, formData>>
dbVars == <<dbVitals, dbGeneral, dbOverweight>>
flowVars == <<vitalsBuild, route, nav, formVars, creates, dbVars>>
normVars == <<payload, extracted>>
listVars == <<listingBuild, patientsDb, fetches, failures, listing, previous, details,
             building, built>>
bmiVars == <<measured, computed>>
lookupVars == <<patientsApi, lookup>>
sideVars == <<lookupVars, view, dated>>
otherVars == <<normVars, listVars, bmiVars, sideVars>>
vars == <<flowVars, otherVars>>

(***************************************************************************)
(* Bounds of the model.                                                    *)
(***************************************************************************)
MaxRecords == 3     \* records written or being written, over the three collections

(***************************************************************************)
(* Dates.                                                                  *)
(***************************************************************************)
NoDate == ""
Yesterday == "2024-01-10"
Today == "2024-01-11"
Tomorrow == "2024-01-12"
Dates == {NoDate, Yesterday, Today, Tomorrow}

\* The day a date string denotes, for comparisons; the empty string parses
\* to an Invalid Date, whose time value is NaN (here: no day, 0).
DayOf(d) ==
    CASE d = Yesterday -> 1
      [] d = Today -> 2
      [] d = Tomorrow -> 3
      [] OTHER -> 0

\* isFutureDate: new Date(dateString) > new Date(), both at midnight.  An
\* Invalid Date compares false with everything.
isFutureDate(d) == DayOf(d) # 0 /\ DayOf(d) > DayOf(Today)


(***************************************************************************)
(* BMI engine.                                                             *)
(***************************************************************************)
UnderweightBelow == 185     \* bmi < 18.5
NormalBelow == 250          \* bmi < 25
RouteGeneralUpTo == 250     \* calculatedBMI <= 25
OverweightGateUpTo == 250   \* bmi <= 25
MinHeight == 50
MaxHeight == 250
MinWeight == 20             \* 2 kg
MaxWeight == 3000           \* 300 kg

\* The weights, in tenths of a kilogram, for which the quotient
\* weight / (heightInMeters * heightInMeters) is exactly halfway between
\* two tenths and its IEEE-754 double lies below the halfway point, so
\* that toFixed(1) gives the lower tenth.  Evaluated for every height
\* MinHeight..MaxHeight and every weight MinWeight..MaxWeight; for every
\* other pair of that range toFixed(1) gives the nearest tenth, the upper
\* one at the remaining halfway points.
DoubleBelowHalf(h) ==
    CASE
       h = 56 ->
          {98, 294, 490, 686, 882, 1078, 1274, 1470, 1666, 1862, 2058, 2254, 2450,
           2842}
    [] h = 64 ->
          {384, 896, 2944}
    [] h = 80 ->
          {24, 40, 56, 72, 88, 104, 120, 136, 152, 168, 184, 200, 216, 232, 248,
           264, 280, 296, 312, 328, 344, 360, 376, 392, 408, 424, 440, 456, 472,
           488, 504, 520, 536, 552, 568, 584, 600, 616, 632, 648, 664, 680, 696,
           712, 728, 744, 760, 776, 792, 808, 824, 840, 856, 872, 888, 904, 920,
           936, 952, 968, 984, 1000, 1016, 1032, 1048, 1064, 1080, 1096, 1112,
           1128, 1144, 1160, 1176, 1192, 1208, 1224, 1240, 1256, 1272, 1288, 1304,
           1320, 1336, 1352, 1368, 1384, 1400, 1416, 1432, 1448, 1464, 1480, 1496,
           1512, 1528, 1544, 1560, 1576, 1592, 1608, 1624, 1640, 1656, 1672, 1688,
           1704, 1720, 1736, 1752, 1768, 1784, 1800, 1816, 1832, 1848, 1864, 1880,
           1896, 1912, 1928, 1944, 1960, 1976, 1992, 2008, 2024, 2040, 2056, 2072,
           2088, 2104, 2120, 2136, 2152, 2168, 2184, 2200, 2216, 2232, 2248, 2264,
           2280, 2296, 2312, 2328, 2344, 2360, 2376, 2392, 2408, 2424, 2440, 2456,
           2472, 2488, 2504, 2520, 2536, 2552, 2568, 2584, 2600, 2616, 2632, 2648,
           2664, 2680, 2696, 2712, 2728, 2744, 2760, 2776, 2792, 2808, 2824, 2840,
           2856, 2872, 2888, 2904, 2920, 2936, 2952, 2968, 2984, 3000}
    [] h = 104 ->
          {338, 1690, 2366}
    [] h = 112 ->
          {392, 1176, 1960, 2744}
    [] h = 128 ->
          {1536}
    [] h = 136 ->
          {578, 1734, 2890}
    [] h = 160 ->
          {32, 96, 160, 224, 288, 352, 416, 480, 544, 608, 672, 736, 800, 864, 928,
           992, 1056, 1120, 1184, 1248, 1312, 1376, 1440, 1504, 1568, 1632, 1696,
           1760, 1824, 1888, 1952, 2016, 2080, 2144, 2208, 2272, 2336, 2400, 2464,
           2528, 2592, 2656, 2720, 2784, 2848, 2912, 2976}
    [] h = 184 ->
          {1058}
    [] h = 200 ->
          {34, 38, 46, 58, 66, 78, 82, 86, 102, 106, 122, 126, 142, 146, 162, 174,
           182, 194, 202, 214, 222, 234, 242, 254, 262, 274, 282, 294, 302, 314,
           334, 338, 354, 358, 374, 378, 394, 398, 414, 418, 434, 438, 454, 458,
           474, 478, 494, 498, 514, 518, 534, 538, 554, 558, 574, 578, 594, 598,
           614, 618, 634, 638, 646, 658, 666, 678, 686, 698, 706, 718, 726, 738,
           746, 758, 766, 778, 786, 798, 806, 818, 826, 838, 846, 858, 866, 878,
           886, 898, 906, 918, 926, 938, 946, 958, 966, 978, 986, 998, 1006, 1018,
           1026, 1038, 1046, 1058, 1066, 1078, 1086, 1098, 1106, 1118, 1126, 1138,
           1146, 1158, 1166, 1178, 1186, 1198, 1206, 1218, 1226, 1238, 1246, 1258,
           1266, 1278, 1282, 1286, 1302, 1306, 1322, 1326, 1342, 1346, 1362, 1366,
           1382, 1386, 1402, 1406, 1422, 1426, 1442, 1446, 1462, 1466, 1482, 1486,
           1502, 1506, 1522, 1526, 1542, 1546, 1562, 1566, 1582, 1586, 1602, 1606,
           1622, 1626, 1642, 1646, 1662, 1666, 1682, 1686, 1702, 1706, 1722, 1726,
           1742, 1746, 1762, 1766, 1782, 1786, 1802, 1806, 1822, 1826, 1842, 1846,
           1862, 1866, 1882, 1886, 1902, 1906, 1922, 1926, 1942, 1946, 1962, 1966,
           1982, 1986, 2002, 2006, 2022, 2026, 2042, 2046, 2062, 2066, 2082, 2086,
           2102, 2106, 2122, 2126, 2142, 2146, 2162, 2166, 2182, 2186, 2202, 2206,
           2222, 2226, 2242, 2246, 2262, 2266, 2282, 2286, 2302, 2306, 2322, 2326,
           2342, 2346, 2362, 2366, 2382, 2386, 2402, 2406, 2422, 2426, 2442, 2446,
           2462, 2466, 2482, 2486, 2502, 2506, 2522, 2526, 2542, 2546, 2562, 2574,
           2582, 2594, 2602, 2614, 2622, 2634, 2642, 2654, 2662, 2674, 2682, 2694,
           2702, 2714, 2722, 2734, 2742, 2754, 2762, 2774, 2782, 2794, 2802, 2814,
           2822, 2834, 2842, 2854, 2862, 2874, 2882, 2894, 2902, 2914, 2922, 2934,
           2942, 2954, 2962, 2974, 2982, 2994}
    [] h = 208 ->
          {1352}
    [] h = 224 ->
          {1568}
    [] h = 248 ->
          {1922}
    [] OTHER -> {}

\* calculateBMI: weight / (height/100)^2, toFixed(1), for a height in cm and
\* a weight in tenths of a kilogram; the result in tenths, as toFixed(1)
\* rounds the double.
calculateBMI(h, w) ==
    IF w \in DoubleBelowHalf(h) THEN (w * 10000) \div (h * h)
    ELSE (2 * w * 10000 + h * h) \div (2 * h * h)

\* A classification that counts 25.0 as Normal.
getBmiStatusNormalUpTo(bmi) ==
    IF bmi < UnderweightBelow THEN "Underweight"
    ELSE IF bmi <= NormalBelow THEN "Normal"
    ELSE "Overweight"

\* getBmiStatus / getBmiStatusText / the status of calculateBMI.
getBmiStatus(bmi) ==
    IF bmi < UnderweightBelow THEN "Underweight"
    ELSE IF bmi < NormalBelow THEN "Normal"
    ELSE "Overweight"

\* VitalsForm.handleSubmit: the route navigated to after a successful write.
NextRoute(bmi) == IF bmi <= RouteGeneralUpTo THEN "general" ELSE "overweight"

\* VitalsForm.handleSubmit: the bmiStatus string put in the navigation state.
NavBmiStatus(build, bmi) ==
    IF build = "part_004"
    THEN (IF bmi <= RouteGeneralUpTo THEN "Normal/Underweight" ELSE "Overweight")
    ELSE getBmiStatus(bmi)

(***************************************************************************)
(* The gates of the assessment forms, on the location state.               *)
(***************************************************************************)
NoState == [patient |-> FALSE, hasBmi |-> FALSE, bmi |-> 0]
WithBmi(bmi) == [patient |-> TRUE, hasBmi |-> TRUE, bmi |-> bmi]
PatientOnly == [patient |-> TRUE, hasBmi |-> FALSE, bmi |-> 0]

\* A gate that tests the patient alone.
NoContextPatientAlone(st) == ~st.patient

\* if (!patient || bmi === undefined): the "No patient data found" screen.
NoContext(st) == ~st.patient \/ ~st.hasBmi

\* GeneralAssessmentForm: getBmiStatusText(bmi) === 'Overweight'.
GeneralDenied(st) == ~NoContext(st) /\ getBmiStatus(st.bmi) = "Overweight"

\* OverweightAssessmentForm: bmi <= 25.
OverweightDenied(st) == ~NoContext(st) /\ st.bmi <= OverweightGateUpTo

\* The form proper (with its submit button) is what is rendered otherwise.
FormRendered(r, st) ==
    /\ ~NoContext(st)
    /\ \/ r = "general" /\ ~GeneralDenied(st)
       \/ r = "overweight" /\ ~OverweightDenied(st)

AccessDenied(r, st) ==
    \/ r = "general" /\ GeneralDenied(st)
    \/ r = "overweight" /\ OverweightDenied(st)


(***************************************************************************)
(* Response bodies.  A JSON value is a list, an object (its entries in key *)
(* order, as Object.values walks them) or a scalar.                        *)
(***************************************************************************)
JList(items) == [t |-> "list", items |-> items, fields |-> <<>>]
JObj(fields) == [t |-> "obj", items |-> <<>>, fields |-> fields]
JScalar(t) == [t |-> t, items |-> <<>>, fields |-> <<>>]
JNull == JScalar("null")
JUndefined == JScalar("undefined")
JNumber == JScalar("number")
JString == JScalar("string")

isArray(v) == v.t = "list"

\* A test that forgets null: typeof null === 'object'.
isObjectOrNull(v) == v.t \in {"obj", "null"}

isObject(v) == v.t = "obj"          \* typeof v === 'object' && v !== null, not a list

\* Where the evaluation raises a TypeError: a property read of, or
\* Object.values of, null or undefined.
isNullish(v) == v.t \in {"null", "undefined"}

\* data?.key: the entry's value, undefined when absent or data is no object.
Get(data, key) ==
    IF isObject(data) /\ \E i \in 1..Len(data.fields) : data.fields[i].k = key
    THEN data.fields[CHOOSE i \in 1..Len(data.fields) : data.fields[i].k = key].v
    ELSE JUndefined

\* Object.values(data)
Values(data) == [i \in 1..Len(data.fields) |-> data.fields[i].v]

HasArray(vals) == \E i \in 1..Len(vals) : isArray(vals[i])

\* for (const value of values) if (Array.isArray(value)) return value
FirstArray(vals) ==
    vals[CHOOSE i \in 1..Len(vals) :
            isArray(vals[i]) /\ \A j \in 1..(i - 1) : ~isArray(vals[j])].items

\* The nested scan: the first object-valued entry that holds a list.
HasNestedArray(vals) ==
    \E i \in 1..Len(vals) : isObject(vals[i]) /\ HasArray(Values(vals[i]))

FirstNestedArray(vals) ==
    FirstArray(Values(
        vals[CHOOSE i \in 1..Len(vals) :
                /\ isObject(vals[i]) /\ HasArray(Values(vals[i]))
                /\ \A j \in 1..(i - 1) :
                      ~(isObject(vals[j]) /\ HasArray(Values(vals[j])))]))

\* data?.key is truthy: Array.isArray(data.key) is then evaluated, with a
\* plain property read of data.
ReadsMember(data, key) == ~isNullish(Get(data, key))

\* The evaluation of extractArrayFromResponse (part_004) raises: a plain
\* read of data.results or data.data on a nullish data, Object.values of a
\* nullish data, or Object.values of a nullish value in the nested scan.
extractArrayFromResponseRaises(data) ==
    /\ ~isArray(data)
    /\ \/ ReadsMember(data, "results") /\ isNullish(data)
       \/ /\ ~isArray(Get(data, "results"))
          /\ \/ ReadsMember(data, "data") /\ isNullish(data)
             \/ /\ ~isArray(Get(data, "data"))
                /\ isObject(data)
                /\ \/ isNullish(data)
                   \/ /\ ~HasArray(Values(data))
                      /\ \E i \in 1..Len(data.fields) :
                            isObject(data.fields[i].v) /\ isNullish(data.fields[i].v)

\* The same of the three-rule normalizer, which reads members only.
extractArrayThreeShapesRaises(data) ==
    /\ ~isArray(data)
    /\ \/ ReadsMember(data, "results") /\ isNullish(data)
       \/ /\ ~isArray(Get(data, "results"))
          /\ ReadsMember(data, "data") /\ isNullish(data)

\* A normalizer that looks at the data field before the results field.
extractDataFirst(data) ==
    IF isArray(data) THEN data.items
    ELSE IF isArray(Get(data, "data")) THEN Get(data, "data").items
    ELSE IF isArray(Get(data, "results")) THEN Get(data, "results").items
    ELSE IF isObject(data) /\ HasArray(Values(data)) THEN FirstArray(Values(data))
    ELSE IF isObject(data) /\ HasNestedArray(Values(data))
         THEN FirstNestedArray(Values(data))
    ELSE <<>>

\* A normalizer that knows the bare list and the results field only.
extractResultsOnly(data) ==
    IF isArray(data) THEN data.items
    ELSE IF isArray(Get(data, "results")) THEN Get(data, "results").items
    ELSE <<>>

\* extractArrayFromResponse of the VitalsForm of part_004.
extractArrayFromResponse(data) ==
    IF isArray(data) THEN data.items
    ELSE IF isArray(Get(data, "results")) THEN Get(data, "results").items
    ELSE IF isArray(Get(data, "data")) THEN Get(data, "data").items
    ELSE IF isObject(data) /\ HasArray(Values(data)) THEN FirstArray(Values(data))
    ELSE IF isObject(data) /\ HasNestedArray(Values(data))
         THEN FirstNestedArray(Values(data))
    ELSE <<>>

\* extractArrayFromResponse of PatientListing and PatientDetails, and the
\* inline shape tests of the assessment forms and of VitalsForm.tsx.
extractArrayThreeShapes(data) ==
    IF isArray(data) THEN data.items
    ELSE IF isArray(Get(data, "results")) THEN Get(data, "results").items
    ELSE IF isArray(Get(data, "data")) THEN Get(data, "data").items
    ELSE <<>>


(***************************************************************************)
(* The backend's list responses and the forms' existing-dates sets.        *)
(***************************************************************************)
Envelopes == {"bare", "results", "data", "items", "nested"}
FlowEnvelopes == {"results", "items"}

\* A list response of the backend in one of the shapes it may use.
Wrap(env, items) ==
    CASE env = "bare" -> JList(items)
      [] env = "results" ->
            JObj(<<[k |-> "count", v |-> JNumber], [k |-> "results", v |-> JList(items)]>>)
      [] env = "data" -> JObj(<<[k |-> "data", v |-> JList(items)]>>)
      [] env = "items" -> JObj(<<[k |-> "items", v |-> JList(items)]>>)
      [] OTHER -> JObj(<<[k |-> "response", v |-> JObj(<<[k |-> "items", v |-> JList(items)]>>)]>>)

Range(seq) == {seq[i] : i \in 1..Len(seq)}

\* new Date(s).toISOString().split('T')[0]: a calendar date string is read
\* as UTC midnight and comes back as it was; a timestamp loses its time.
YesterdayMorning == "2024-01-10T09:30:00Z"
TodayMorning == "2024-01-11T09:30:00Z"
ToISODate(d) ==
    CASE d = YesterdayMorning -> Yesterday
      [] d = TodayMorning -> Today
      [] OTHER -> d

\* A string new Date() makes an Invalid Date of, whose toISOString throws;
\* so does it of no string at all.
Unparseable == "not a date"
isInvalidDate(d) == d \in {NoDate, Unparseable}

\* created_at of a record; a record written by the forms is created on the
\* day the model runs.
CreatedAt(item) ==
    IF "created_at" \in DOMAIN item THEN item.created_at ELSE TodayMorning

\* part_004 fetchVitals: visit_date || created_at || ''.
DateOrCreated(item) ==
    IF item.visit_date # NoDate THEN item.visit_date ELSE CreatedAt(item)

\* part_004 fetchVitals: toISOString of a date that is not empty throws out
\* of the map, into the catch of fetchVitals.
VitalsDatesPart004Raises(items) ==
    \E i \in 1..Len(items) :
        DateOrCreated(items[i]) # NoDate /\ isInvalidDate(DateOrCreated(items[i]))

\* part_004 fetchVitals: the ISO date of visit_date || created_at, then
\* .filter(Boolean).
VitalsDatesPart004(items) ==
    {ToISODate(DateOrCreated(items[i])) : i \in 1..Len(items)} \ {NoDate}

\* VitalsForm.tsx fetchExistingVitals: toISOString throws on an Invalid Date
\* and the catch returns the raw visit_date; nothing is filtered.
VitalsDatesTsx(items) ==
    {IF ~isInvalidDate(items[i].visit_date) THEN ToISODate(items[i].visit_date)
     ELSE items[i].visit_date : i \in 1..Len(items)}

\* The assessment forms: as VitalsForm.tsx, then .filter(date => date).
AssessmentDates(items) ==
    {IF ~isInvalidDate(items[i].visit_date) THEN ToISODate(items[i].visit_date)
     ELSE items[i].visit_date : i \in 1..Len(items)} \ {NoDate}

(***************************************************************************)
(* Pages.                                                                  *)
(***************************************************************************)
Builds == {"part_004", "VitalsForm.tsx"}
AssessmentRoutes == {"general", "overweight"}
KindOf(r) == IF r = "general" THEN "General" ELSE "Overweight"

\* What the user may type: a height in cm and a weight in tenths of a kg
\* (0 is the empty field), here giving BMI 24.9 and 25.1.
Measurements == {<<0, 0>>, <<200, 996>>, <<200, 1004>>}

\* A page is left: what it had in flight completes unobserved by it.
Abandon(cs) == {[c EXCEPT !.live = FALSE] : c \in cs}

Pending(kind) == {c \in creates : c.kind = kind}

\* Vitals of two earlier visits of the patient, BMI 24.9 and 25.1.
EarlierVisits ==
    << [visit_date |-> "2024-01-03", bmi |-> 249],
       [visit_date |-> "2024-01-04", bmi |-> 251] >>

\* The records written to the backend since the pages were opened, and
\* those on their way to it.
Written ==
    Cardinality({i \in 1..Len(dbVitals) : dbVitals[i] \notin Range(EarlierVisits)})
    + Len(dbGeneral) + Len(dbOverweight) + Cardinality(creates)

\* The fields of a form nothing has been submitted from.
NoEntries == <<>>

\* Mounting a page resets the component state.
Mount(r, st, f, loading) ==
    /\ route' = r
    /\ nav' = st
    /\ patientUUID' = FALSE
    /\ fetch' = f
    /\ existingDates' = {}
    /\ isSubmitting' = loading
    /\ error' = {}
    /\ formData' = NoEntries

\* No patient lookup, no answer drawn.
NoLookup == [phase |-> "none", uuid |-> "", error |-> FALSE, sent |-> {}]

LookupIdle ==
    /\ patientsApi = <<>>
    /\ lookup = NoLookup

NoView == [patients |-> <<>>, filteredPatients |-> <<>>, filterDate |-> "",
           loading |-> FALSE, refresh |-> FALSE]

ViewIdle == view = NoView

NotDated == [records |-> <<>>, by |-> "none", dates |-> {}, raised |-> FALSE]

DatedIdle == dated = NotDated

SideIdle == LookupIdle /\ ViewIdle /\ DatedIdle

FlowIdle ==
    /\ vitalsBuild \in Builds
    /\ route = "listing"
    /\ nav = NoState
    /\ patientUUID = FALSE
    /\ fetch = "idle"
    /\ formData = NoEntries
    /\ existingDates = {}
    /\ isSubmitting = FALSE
    /\ error = {}
    /\ creates = {}
    /\ dbGeneral = <<>>
    /\ dbOverweight = <<>>

PagesInit == FlowIdle /\ SideIdle

FlowInit == PagesInit /\ dbVitals = <<>>


(***************************************************************************)
(* VitalsForm.                                                             *)
(***************************************************************************)
\* PatientListing.handleRecordVitals / PatientDetails.handleAddVitals /
\* PatientRegistration: navigate('/vitals-form', {state: {patient}}).  The
\* part_004 form first looks the patient up (loading), VitalsForm.tsx
\* fetches the existing vitals at once.
OpenVitalsForm ==
    /\ route = "listing"
    /\ IF vitalsBuild = "part_004"
       THEN Mount("vitals", PatientOnly, "lookup", TRUE)
       ELSE Mount("vitals", PatientOnly, "inflight", FALSE)
    /\ creates' = Abandon(creates)
    /\ UNCHANGED <<vitalsBuild, dbVars, otherVars>>

\* part_004 fetchRealPatientData: the patient is found and its id is a UUID;
\* the fetchVitals effect then runs.
LookupPatientOk ==
    /\ route = "vitals" /\ fetch = "lookup"
    /\ patientUUID' = TRUE
    /\ isSubmitting' = FALSE
    /\ fetch' = "inflight"
    /\ UNCHANGED <<vitalsBuild, route, nav, existingDates, error,
                   creates, dbVars, formData, otherVars>>

\* part_004 fetchRealPatientData: no patient, no UUID, or the request fails.
LookupPatientFail ==
    /\ route = "vitals" /\ fetch = "lookup"
    /\ isSubmitting' = FALSE
    /\ error' = {"patient"}
    /\ fetch' = "idle"
    /\ UNCHANGED <<vitalsBuild, route, nav, patientUUID, existingDates,
                   creates, dbVars, formData, otherVars>>

\* The existing-vitals response arrives.
FetchVitalsOk(env) ==
    /\ route = "vitals" /\ fetch = "inflight"
    /\ existingDates' =
          IF vitalsBuild = "part_004"
          THEN (IF VitalsDatesPart004Raises(extractArrayFromResponse(Wrap(env, dbVitals)))
                THEN existingDates
                ELSE VitalsDatesPart004(extractArrayFromResponse(Wrap(env, dbVitals))))
          ELSE VitalsDatesTsx(extractArrayThreeShapes(Wrap(env, dbVitals)))
    /\ fetch' = "done"
    /\ UNCHANGED <<vitalsBuild, route, nav, patientUUID, isSubmitting,
                   error, creates, dbVars, formData, otherVars>>

\* A failure of the existing-vitals request shown as an error of the form.
FetchVitalsFailFatal ==
    /\ route = "vitals" /\ fetch = "inflight"
    /\ existingDates' = {}
    /\ error' = {"fetch"}
    /\ fetch' = "failed"
    /\ UNCHANGED <<vitalsBuild, route, nav, patientUUID, isSubmitting,
                   creates, dbVars, formData, otherVars>>

\* The existing-vitals request fails (in part_004: both attempts): the
\* catch of part_004 only logs, the catch of VitalsForm.tsx sets [].
FetchVitalsFail ==
    /\ route = "vitals" /\ fetch = "inflight"
    /\ existingDates' = IF vitalsBuild = "part_004" THEN existingDates ELSE {}
    /\ fetch' = "failed"
    /\ UNCHANGED <<vitalsBuild, route, nav, patientUUID, isSubmitting,
                   error, creates, dbVars, formData, otherVars>>

\* A validateForm that does not look at existingDates.
ValidateFormNoConflict(d, h, w) ==
    (IF ~patientUUID THEN {"patient"} ELSE {})
    \cup (IF h = 0 \/ h < MinHeight \/ h > MaxHeight THEN {"height_cm"} ELSE {})
    \cup (IF w = 0 \/ w < MinWeight \/ w > MaxWeight THEN {"weight_kg"} ELSE {})
    \cup (IF isFutureDate(d) THEN {"future"} ELSE {})

\* part_004 validateForm: every failed check leaves its message.
ValidateFormErrors(d, h, w) ==
    (IF ~patientUUID THEN {"patient"} ELSE {})
    \cup (IF h = 0 \/ h < MinHeight \/ h > MaxHeight THEN {"height_cm"} ELSE {})
    \cup (IF w = 0 \/ w < MinWeight \/ w > MaxWeight THEN {"weight_kg"} ELSE {})
    \cup (IF d \in existingDates THEN {"conflict"}
          ELSE IF isFutureDate(d) THEN {"future"} ELSE {})

\* VitalsForm.tsx handleSubmit: the first failed check returns.
TsxSubmitErrors(d, h, w) ==
    IF ~nav.patient THEN {"patient"}
    ELSE IF d = NoDate \/ h = 0 \/ w = 0 THEN {"mandatory"}
    ELSE IF h <= 0 \/ w <= 0 THEN {"invalid"}
    ELSE IF d \in existingDates THEN {"conflict"}
    ELSE {}

\* A check that also refuses a date a request in flight is writing.
VitalsSubmitErrorsLocked(d, h, w) ==
    (IF vitalsBuild = "part_004" THEN ValidateFormErrors(d, h, w)
     ELSE TsxSubmitErrors(d, h, w))
    \cup (IF \E c \in Pending("Vitals") : c.visit_date = d THEN {"conflict"} ELSE {})

VitalsSubmitErrors(d, h, w) ==
    IF vitalsBuild = "part_004" THEN ValidateFormErrors(d, h, w)
    ELSE TsxSubmitErrors(d, h, w)

\* <input type="date" max={today}>, with or without required: what the
\* browser lets a submit through with.  The empty field has no value to
\* compare with max.
DateControlValid(d, required) ==
    IF d = NoDate THEN ~required ELSE DayOf(d) <= DayOf(Today)

\* The submit button and the constraints of the inputs of part_004: the
\* button is disabled while loading or without a patient UUID; the number
\* inputs have min and max but are not required, nor is the date.
SubmitEnabledPart004(d, h, w) ==
    /\ ~isSubmitting /\ patientUUID
    /\ DateControlValid(d, FALSE)
    /\ h = 0 \/ (h >= MinHeight /\ h <= MaxHeight)
    /\ w = 0 \/ (w >= MinWeight /\ w <= MaxWeight)

\* The same of VitalsForm.tsx: the button is disabled with an empty field,
\* while submitting or without a patient; every input is required, the
\* numbers with min="1".
SubmitEnabledTsx(d, h, w) ==
    /\ d # NoDate /\ h # 0 /\ w # 0 /\ ~isSubmitting /\ nav.patient
    /\ DateControlValid(d, TRUE)
    /\ h >= 1 /\ w >= 10

VitalsRequest(d, h, w) ==
    [kind |-> "Vitals", visit_date |-> d, bmi |-> calculateBMI(h, w), live |-> TRUE]

\* The form is submitted with the fields as the user left them:
\* VitalsForm.handleSubmit up to the await of createVitals.
SubmitVitals(d, h, w) ==
    /\ route = "vitals"
    /\ IF vitalsBuild = "part_004" THEN SubmitEnabledPart004(d, h, w)
       ELSE SubmitEnabledTsx(d, h, w)
    /\ formData' = <<d, h, w>>
    /\ error' = VitalsSubmitErrors(d, h, w)
    /\ IF VitalsSubmitErrors(d, h, w) = {}
       THEN /\ Written < MaxRecords
            /\ isSubmitting' = TRUE
            /\ creates' = creates \cup {VitalsRequest(d, h, w)}
       ELSE UNCHANGED <<isSubmitting, creates>>
    /\ UNCHANGED <<vitalsBuild, route, nav, patientUUID, fetch, existingDates,
                   dbVars, otherVars>>

\* createVitals succeeds: the backend stores the record and handleSubmit
\* goes on to navigate to the assessment route with the BMI in the state.
\* A record's visit date is a calendar date: the backend stores no record
\* without one, and such a request can only fail.
CreateVitalsOk(c) ==
    /\ c \in Pending("Vitals")
    /\ c.visit_date # NoDate
    /\ dbVitals' = Append(dbVitals, [visit_date |-> c.visit_date, bmi |-> c.bmi])
    /\ Mount(NextRoute(c.bmi), WithBmi(c.bmi), "inflight", FALSE)
    /\ creates' = Abandon(creates \ {c})
    /\ UNCHANGED <<vitalsBuild, dbGeneral, dbOverweight, otherVars>>

\* A failure that ends the request and tells the user nothing.
CreateVitalsFailSilent(c) ==
    /\ c \in Pending("Vitals")
    /\ creates' = creates \ {c}
    /\ IF c.live
       THEN isSubmitting' = FALSE /\ UNCHANGED error
       ELSE UNCHANGED <<isSubmitting, error>>
    /\ UNCHANGED <<vitalsBuild, route, nav, patientUUID, fetch, existingDates,
                   dbVars, formData, otherVars>>

\* createVitals fails: the form reports it and stays.
CreateVitalsFail(c) ==
    /\ c \in Pending("Vitals")
    /\ creates' = creates \ {c}
    /\ IF c.live
       THEN isSubmitting' = FALSE /\ error' = {"save_failed"}
       ELSE UNCHANGED <<isSubmitting, error>>
    /\ UNCHANGED <<vitalsBuild, route, nav, patientUUID, fetch, existingDates,
                   dbVars, formData, otherVars>>


(***************************************************************************)
(* GeneralAssessmentForm and OverweightAssessmentForm.                     *)
(***************************************************************************)
AssessmentsOf(r) == IF r = "general" THEN dbGeneral ELSE dbOverweight

\* The route is entered without the state handleSubmit passes: its URL
\* typed or reloaded (no state at all), or a navigation that carries the
\* patient alone.  Without patient.id nothing is fetched.
EnterAssessmentDirect(r, st) ==
    /\ route = "listing"
    /\ Mount(r, st, IF st.patient THEN "inflight" ELSE "idle", FALSE)
    /\ creates' = Abandon(creates)
    /\ UNCHANGED <<vitalsBuild, dbVars, otherVars>>

\* The browser's history holds the location state every earlier
\* navigation of handleSubmit pushed: each vitals record written left the
\* entry (NextRoute(bmi), {patient, bmi}), which Back/Forward re-enters.
ReEnterAssessment(i) ==
    /\ route = "listing"
    /\ i \in 1..Len(dbVitals)
    /\ Mount(NextRoute(dbVitals[i].bmi), WithBmi(dbVitals[i].bmi), "inflight", FALSE)
    /\ creates' = Abandon(creates)
    /\ UNCHANGED <<vitalsBuild, dbVars, otherVars>>

\* fetchExistingAssessments: the response arrives.
FetchAssessmentsOk(env) ==
    /\ route \in AssessmentRoutes /\ fetch = "inflight"
    /\ existingDates' =
          AssessmentDates(extractArrayThreeShapes(Wrap(env, AssessmentsOf(route))))
    /\ fetch' = "done"
    /\ UNCHANGED <<vitalsBuild, route, nav, patientUUID, isSubmitting,
                   error, creates, dbVars, formData, otherVars>>

\* fetchExistingAssessments: the request fails; the catch sets [].
FetchAssessmentsFail ==
    /\ route \in AssessmentRoutes /\ fetch = "inflight"
    /\ existingDates' = {}
    /\ fetch' = "failed"
    /\ UNCHANGED <<vitalsBuild, route, nav, patientUUID, isSubmitting,
                   error, creates, dbVars, formData, otherVars>>

\* handleSubmit of an assessment form: the first failed check returns.
AssessmentSubmitErrors(d, answered) ==
    IF ~nav.patient THEN {"patient"}
    ELSE IF d = NoDate THEN {"required"}
    ELSE IF ~answered THEN {"required"}
    ELSE IF d \in existingDates THEN {"conflict"}
    ELSE {}

AssessmentRequest(r, d) ==
    [kind |-> KindOf(r), visit_date |-> d, bmi |-> 0, live |-> TRUE]

\* The submit button of an assessment form is disabled while submitting
\* and while the date typed is in existingDates; the date and the
\* questions are required inputs.
\* A submit control that stays enabled while the create is in flight.
AssessmentSubmitEnabledWhileSaving(d, answered) ==
    /\ d \notin existingDates
    /\ DateControlValid(d, TRUE)
    /\ answered

AssessmentSubmitEnabled(d, answered) ==
    /\ ~isSubmitting /\ d \notin existingDates
    /\ DateControlValid(d, TRUE)
    /\ answered

\* The form is submitted: handleSubmit up to the await of the create call.
\* Only the form proper has a submit button.
SubmitAssessment(d, answered) ==
    /\ route \in AssessmentRoutes /\ FormRendered(route, nav)
    /\ AssessmentSubmitEnabled(d, answered)
    /\ formData' = <<d, answered>>
    /\ error' = AssessmentSubmitErrors(d, answered)
    /\ IF AssessmentSubmitErrors(d, answered) = {}
       THEN /\ Written < MaxRecords
            /\ isSubmitting' = TRUE
            /\ creates' = creates \cup {AssessmentRequest(route, d)}
       ELSE UNCHANGED <<isSubmitting, creates>>
    /\ UNCHANGED <<vitalsBuild, route, nav, patientUUID, fetch, existingDates,
                   dbVars, otherVars>>

\* The create call succeeds: the record is stored (with a calendar date,
\* as for vitals) and handleSubmit navigates to /patient-listing.
CreateAssessmentOk(c) ==
    /\ c \in creates /\ c.kind # "Vitals"
    /\ c.visit_date # NoDate
    /\ IF c.kind = "General"
       THEN dbGeneral' = Append(dbGeneral, [visit_date |-> c.visit_date])
            /\ UNCHANGED dbOverweight
       ELSE dbOverweight' = Append(dbOverweight, [visit_date |-> c.visit_date])
            /\ UNCHANGED dbGeneral
    /\ Mount("listing", NoState, "idle", FALSE)
    /\ creates' = Abandon(creates \ {c})
    /\ UNCHANGED <<vitalsBuild, dbVitals, otherVars>>

\* The create call fails: setError, and the form stays.
CreateAssessmentFail(c) ==
    /\ c \in creates /\ c.kind # "Vitals"
    /\ creates' = creates \ {c}
    /\ IF c.live
       THEN isSubmitting' = FALSE /\ error' = {"save_failed"}
       ELSE UNCHANGED <<isSubmitting, error>>
    /\ UNCHANGED <<vitalsBuild, route, nav, patientUUID, fetch, existingDates,
                   dbVars, formData, otherVars>>

\* Cancel, "Back to Patient Listing", or the browser's Back.
LeaveForm ==
    /\ route # "listing"
    /\ Mount("listing", NoState, "idle", FALSE)
    /\ creates' = Abandon(creates)
    /\ UNCHANGED <<vitalsBuild, dbVars, otherVars>>

FlowNext ==
    \/ OpenVitalsForm
    \/ LookupPatientOk
    \/ LookupPatientFail
    \/ \E env \in FlowEnvelopes : FetchVitalsOk(env)
    \/ FetchVitalsFail
    \/ \E d \in Dates, m \in Measurements : SubmitVitals(d, m[1], m[2])
    \/ \E c \in creates : CreateVitalsOk(c)
    \/ \E c \in creates : CreateVitalsFail(c)
    \/ \E r \in AssessmentRoutes, st \in {NoState, PatientOnly} : EnterAssessmentDirect(r, st)
    \/ \E i \in 1..MaxRecords : ReEnterAssessment(i)
    \/ \E env \in FlowEnvelopes : FetchAssessmentsOk(env)
    \/ FetchAssessmentsFail
    \/ \E d \in Dates, a \in BOOLEAN : SubmitAssessment(d, a)
    \/ \E c \in creates : CreateAssessmentOk(c)
    \/ \E c \in creates : CreateAssessmentFail(c)
    \/ LeaveForm

\* No response has been normalised.
NotExtracted == [by |-> "none", out |-> <<>>, raised |-> FALSE]

NormIdle == payload = JNull /\ extracted = NotExtracted

\* No listing has been built and no details page is open.
ListIdle ==
    /\ listingBuild = "first"
    /\ patientsDb = <<>>
    /\ fetches = <<>>
    /\ failures = 0
    /\ listing = <<>>
    /\ previous = <<>>
    /\ details = <<>>
    /\ building = FALSE
    /\ built = 0

NotComputed == [bmi |-> 0, status |-> ""]

BmiIdle ==
    /\ measured = <<0, 0>>
    /\ computed = NotComputed

Init == FlowInit /\ NormIdle /\ ListIdle /\ BmiIdle

Next == FlowNext

Spec == Init /\ [][Next]_vars


(***************************************************************************)
(* Properties of the workflow (Spec).                                      *)
(***************************************************************************)
LatestDay(recs) ==
    CHOOSE n \in {DayOf(r.visit_date) : r \in Range(recs)} :
        \A r \in Range(recs) : DayOf(r.visit_date) <= n

\* The vitals records of the latest visit date on file.
MostRecentVitals(recs) ==
    {r \in Range(recs) : DayOf(r.visit_date) = LatestDay(recs)}

IssuesAssessment ==
    \E d \in Dates, answered \in BOOLEAN :
        SubmitAssessment(d, answered) /\ creates' # creates

\* C1: no create-General request is issued for a patient whose most recent
\* vitals are Overweight, and no create-Overweight request for one whose
\* most recent vitals are Normal or Underweight.
C1_VariantMatchesLatestVitals ==
    [][IssuesAssessment /\ dbVitals # <<>> =>
          /\ route = "general" =>
                \E r \in MostRecentVitals(dbVitals) : getBmiStatus(r.bmi) # "Overweight"
          /\ route = "overweight" =>
                \E r \in MostRecentVitals(dbVitals) : getBmiStatus(r.bmi) = "Overweight"]_vars

\* C4: a form entered without a patient or without a BMI shows the
\* no-context screen and has no create of its own under way, and every
\* create-assessment request is issued with a patient and a BMI in the
\* location state, the BMI being that of a vitals record on file.
C4_NoContextNoCreate ==
    /\ [](route \in AssessmentRoutes /\ NoContext(nav) =>
             /\ ~FormRendered(route, nav) /\ ~AccessDenied(route, nav)
             /\ ~isSubmitting
             /\ \A c \in creates : ~c.live)
    /\ [][IssuesAssessment =>
             /\ nav.patient /\ nav.hasBmi
             /\ \E r \in Range(dbVitals) : r.bmi = nav.bmi]_vars

\* A form entered with the patient but no BMI, its fetch answered.
C4_Witness ==
    route \in AssessmentRoutes /\ nav = PatientOnly /\ fetch = "done"

\* The checks of each handler other than the date-conflict check.
VitalsFieldsValid(d, h, w) ==
    IF vitalsBuild = "part_004"
    THEN /\ patientUUID
         /\ h >= MinHeight /\ h <= MaxHeight
         /\ w >= MinWeight /\ w <= MaxWeight
         /\ ~isFutureDate(d)
    ELSE nav.patient /\ d # NoDate /\ h > 0 /\ w > 0

AssessmentFieldsValid(d, answered) == nav.patient /\ d # NoDate /\ answered

\* The submit adds one request, for the date d, to those under way.
IssuesOneFor(d) ==
    \E c \in creates' :
        /\ c \notin creates
        /\ creates' = creates \cup {c}
        /\ c.visit_date = d /\ c.live

\* C5: a submit for a date in existingDates is rejected with the
\* conflict error and issues no create; a submit for a date not in it that
\* passes the other validations issues exactly one create, for that date.
C5_ConflictGuard ==
    [][/\ \A d \in Dates, m \in Measurements :
             SubmitVitals(d, m[1], m[2]) =>
                IF d \in existingDates
                THEN creates' = creates /\ "conflict" \in error'
                ELSE VitalsFieldsValid(d, m[1], m[2]) => IssuesOneFor(d)
       /\ \A d \in Dates, answered \in BOOLEAN :
             SubmitAssessment(d, answered) =>
                IF d \in existingDates
                THEN creates' = creates /\ "conflict" \in error'
                ELSE AssessmentFieldsValid(d, answered) => IssuesOneFor(d)]_vars

\* A submit has just been rejected for its date alone.
C5_Witness == error = {"conflict"} /\ existingDates # {} /\ ~isSubmitting

NoTwoOnOneDate(recs) ==
    \A i, j \in 1..Len(recs) : i # j => recs[i].visit_date # recs[j].visit_date

\* C6: the backend holds at most one vitals record per visit date of the
\* patient.
C6_OneVitalsPerDate == NoTwoOnOneDate(dbVitals)

\* C7: the backend holds at most one General and at most one Overweight
\* assessment per visit date of the patient.
C7_OneAssessmentPerDate == NoTwoOnOneDate(dbGeneral) /\ NoTwoOnOneDate(dbOverweight)

\* C8: no create request, of vitals or of an assessment, carries an empty
\* visit date or one after today.
C8_NoEmptyOrFutureDate ==
    \A c \in creates : c.visit_date # NoDate /\ ~isFutureDate(c.visit_date)

(***************************************************************************)
(* One visit, over every one-decimal BMI from 18.0 to 26.0: the routing of *)
(* VitalsForm.handleSubmit and the gates of the two assessment forms.      *)
(***************************************************************************)
SweepBmis == 180..260

\* At 200 cm a weight of 4b tenths of a kilogram has BMI exactly b tenths.
SweepMeasurements == {<<200, 4 * b>> : b \in SweepBmis}

\* An assessment form mounted with the state {patient, bmi}, whoever
\* navigated to it.
RenderAssessment(r, b) ==
    /\ route = "listing"
    /\ Mount(r, WithBmi(b), "inflight", FALSE)
    /\ creates' = Abandon(creates)
    /\ UNCHANGED <<vitalsBuild, dbVars, otherVars>>

RouteNext ==
    \/ OpenVitalsForm
    \/ LookupPatientOk
    \/ LookupPatientFail
    \/ \E env \in FlowEnvelopes : FetchVitalsOk(env)
    \/ FetchVitalsFail
    \/ Written = 0 /\ \E m \in SweepMeasurements : SubmitVitals(Today, m[1], m[2])
    \/ \E c \in creates : CreateVitalsOk(c)
    \/ \E c \in creates : CreateVitalsFail(c)
    \/ \E r \in AssessmentRoutes, b \in SweepBmis : RenderAssessment(r, b)
    \/ \E env \in FlowEnvelopes : FetchAssessmentsOk(env)
    \/ FetchAssessmentsFail
    \/ LeaveForm

SpecRoute == Init /\ [][RouteNext]_vars


\* C2: the route handleSubmit navigates to after a successful vitals write
\* is an assessment route, and it is /overweight-assessment exactly when
\* the BMI written is Overweight (25.0 or more).
C2_RouteMatchesCategory ==
    [][\A c \in creates :
          CreateVitalsOk(c) =>
             /\ route' \in AssessmentRoutes
             /\ route' = "overweight" <=> getBmiStatus(c.bmi) = "Overweight"]_vars

\* C3: for the BMI in the location state, the Overweight form renders its
\* form exactly when the BMI is Overweight and the General form exactly
\* when it is not, so that exactly one of the two accepts it.
C3_ExactlyOneFormAccepts ==
    route \in AssessmentRoutes /\ ~NoContext(nav) =>
       /\ FormRendered("overweight", nav) <=> getBmiStatus(nav.bmi) = "Overweight"
       /\ FormRendered("general", nav) <=> getBmiStatus(nav.bmi) # "Overweight"


(***************************************************************************)
(* The response normalizers on their own: a response body is drawn, and    *)
(* one of the two normalizers is applied to it.                            *)
(***************************************************************************)
MaxItems == 2

Recs == {"r1", "r2"}
Lists == UNION {[1..n -> Recs] : n \in 0..MaxItems}

Field(key, value) == [k |-> key, v |-> value]

\* Objects one level down: a list under a key, beside a scalar or beside a
\* second list.
InnerObjects ==
    {JObj(<<Field("items", x)>>) : x \in {JList(l) : l \in Lists} \cup {JNumber}}
    \cup {JObj(<<Field("total", JNumber), Field("items", JList(l))>>) : l \in Lists}
    \cup {JObj(<<Field("items", JList(l)), Field("more", JList(<<"r2">>))>>) : l \in Lists}

FieldValues == {JNull, JNumber} \cup {JList(l) : l \in Lists} \cup InnerObjects
OuterKeys == {"results", "data", "items", "meta"}

\* Objects of up to two entries, in either key order.
OuterObjects ==
    {JObj(<<>>)}
    \cup {JObj(<<Field(k1, v1)>>) : k1 \in OuterKeys, v1 \in FieldValues}
    \cup {JObj(<<Field(kk[1], v1), Field(kk[2], v2)>>) :
             kk \in {x \in OuterKeys \X OuterKeys : x[1] # x[2]},
             v1 \in FieldValues, v2 \in FieldValues}

Payloads ==
    {JNull, JUndefined, JNumber, JString} \cup {JList(l) : l \in Lists} \cup OuterObjects

ExtractInit == FlowInit /\ ListIdle /\ BmiIdle /\ payload \in Payloads /\ extracted = NotExtracted

\* part_004: extractArrayFromResponse(response.data)
ApplyExtractArrayFromResponse ==
    /\ extracted = NotExtracted
    /\ extracted' =
          IF extractArrayFromResponseRaises(payload)
          THEN [by |-> "part_004", out |-> <<>>, raised |-> TRUE]
          ELSE [by |-> "part_004", out |-> extractArrayFromResponse(payload),
                raised |-> FALSE]
    /\ UNCHANGED <<flowVars, sideVars, payload, listVars, bmiVars>>

\* PatientListing: extractArrayFromResponse(response.data)
ApplyExtractThreeShapes ==
    /\ extracted = NotExtracted
    /\ extracted' =
          IF extractArrayThreeShapesRaises(payload)
          THEN [by |-> "PatientListing", out |-> <<>>, raised |-> TRUE]
          ELSE [by |-> "PatientListing", out |-> extractArrayThreeShapes(payload),
                raised |-> FALSE]
    /\ UNCHANGED <<flowVars, sideVars, payload, listVars, bmiVars>>

ExtractNext == ApplyExtractArrayFromResponse \/ ApplyExtractThreeShapes

SpecExtract == ExtractInit /\ [][ExtractNext]_vars

\* The entries of the payload, none when it is no object.
Entries == IF isObject(payload) THEN payload.fields ELSE <<>>

ListUnder(key) == \E i \in DOMAIN Entries : Entries[i].k = key /\ isArray(Entries[i].v)

\* Entry i is an object holding a list among its own values.
HoldsList(i) ==
    /\ isObject(Entries[i].v)
    /\ \E j \in DOMAIN Entries[i].v.fields : isArray(Entries[i].v.fields[j].v)

\* s is the first list among the values of the entries fs.
IsFirstListOf(s, fs) ==
    \E i \in DOMAIN fs :
        /\ isArray(fs[i].v) /\ s = fs[i].v.items
        /\ \A j \in 1..(i - 1) : ~isArray(fs[j].v)

\* C9: extractArrayFromResponse returns the list of the earliest rule that
\* matches: the body itself when it is a list, else the list under
\* results, else the list under data, else the first list among the
\* values, else the first list inside the first object-valued entry that
\* holds one, else the empty list.
C9_RuleOrder ==
    extracted.by = "part_004" =>
       CASE isArray(payload) -> extracted.out = payload.items
         [] ~isArray(payload) /\ ListUnder("results") ->
               extracted.out = Get(payload, "results").items
         [] ~isArray(payload) /\ ~ListUnder("results") /\ ListUnder("data") ->
               extracted.out = Get(payload, "data").items
         [] /\ ~ListUnder("results") /\ ~ListUnder("data")
            /\ \E i \in DOMAIN Entries : isArray(Entries[i].v) ->
               IsFirstListOf(extracted.out, Entries)
         [] /\ \A i \in DOMAIN Entries : ~isArray(Entries[i].v)
            /\ \E i \in DOMAIN Entries : HoldsList(i) ->
               \E i \in DOMAIN Entries :
                  /\ HoldsList(i) /\ \A j \in 1..(i - 1) : ~HoldsList(j)
                  /\ IsFirstListOf(extracted.out, Entries[i].v.fields)
         [] OTHER -> extracted.out = <<>>

\* A body with different lists under results and under data, data first,
\* was normalised to the list under results.
C9_Witness ==
    /\ extracted.by = "part_004"
    /\ payload = JObj(<<Field("data", JList(<<"r2">>)), Field("results", JList(<<"r1", "r2">>))>>)
    /\ extracted.out = <<"r1", "r2">>

\* C10: for a list L, each normalizer returns L, with its length and its
\* order, from L itself, from {results: L} and from {data: L}.
C10_SameListFromThreeShapes ==
    \A l \in Lists :
        /\ extracted # NotExtracted
        /\ payload \in {JList(l), JObj(<<Field("results", JList(l))>>),
                        JObj(<<Field("data", JList(l))>>)}
        => extracted.out = l /\ Len(extracted.out) = Len(l)

\* {data: [r2, r1]} was normalised by the three-rule normalizer.
C10_Witness ==
    /\ extracted.by = "PatientListing"
    /\ payload = JObj(<<Field("data", JList(<<"r2", "r1">>))>>)
    /\ extracted.out = <<"r2", "r1">>


\* Some rule of the normalizer that ran finds a list in the payload.
SomeRuleFindsList ==
    \/ isArray(payload)
    \/ ListUnder("results") \/ ListUnder("data")
    \/ /\ extracted.by = "part_004"
       /\ \/ \E i \in DOMAIN Entries : isArray(Entries[i].v)
          \/ \E i \in DOMAIN Entries : HoldsList(i)

\* C11 as stated: the normalizers never raise, and return the empty list
\* exactly when no rule finds a list.
C11_EmptyExactlyWhenNoList ==
    extracted.by # "none" =>
       /\ ~extracted.raised
       /\ extracted.out = <<>> <=> ~SomeRuleFindsList

\* C11: the normalizers never raise; they return the empty list when no
\* rule finds a list, and a list of the payload otherwise, so that a
\* non-empty result always comes from a rule that found it.
C11_NeverRaises ==
    extracted.by # "none" =>
       /\ ~extracted.raised
       /\ ~SomeRuleFindsList => extracted.out = <<>>
       /\ extracted.out # <<>> => SomeRuleFindsList
       /\ extracted.out \in Lists

\* null was normalised by the five-rule normalizer, to the empty list.
C11_Witness ==
    /\ extracted.by = "part_004" /\ payload = JNull
    /\ extracted.out = <<>> /\ ~extracted.raised


(***************************************************************************)
(* PatientListing and PatientDetails: the newest record of each kind and   *)
(* the summary of a patient.  The file PatientListing.tsx holds two        *)
(* versions of the component, here "first" and "second".                   *)
(***************************************************************************)
ListingBuilds == {"first", "second"}

\* A JavaScript number, or the lack of one.
JsFinite(v) == [k |-> "finite", v |-> v]
JsNaN == [k |-> "NaN", v |-> 0]
JsInfinity == [k |-> "Infinity", v |-> 0]
JsUndefined == [k |-> "undefined", v |-> 0]
JsNull == [k |-> "null", v |-> 0]

\* The bmi field of a vitals record as the backend sends it: a number, a
\* string (n is what parseFloat makes of it), null, or no field.
BmiNumber(v) == [t |-> "number", n |-> JsFinite(v)]
BmiString(n) == [t |-> "string", n |-> n]
BmiNull == [t |-> "null", n |-> JsNull]
BmiMissing == [t |-> "undefined", n |-> JsUndefined]

\* !x for a number or the lack of one.
Falsy(n) == n.k \in {"NaN", "undefined", "null"} \/ (n.k = "finite" /\ n.v = 0)

\* new Date(s).getTime(), in half days.  Every date of a record here is
\* well formed; 0 stands for the NaN of an Invalid Date.
TimeOf(s) ==
    CASE s = Yesterday -> 2
      [] s = YesterdayMorning -> 3
      [] s = Today -> 4
      [] s = TodayMorning -> 5
      [] s = Tomorrow -> 6
      [] OTHER -> 0

\* The second PatientListing: getDateValue.
getDateValue(s) == IF s = NoDate THEN 0 ELSE TimeOf(s)

\* r.visit_date || r.created_at
EffectiveDate(r) == IF r.visit_date # NoDate THEN r.visit_date ELSE r.created_at

\* An ascending sort followed by [0]: the first of the oldest records.
SortedAscendingFirst(recs) ==
    recs[CHOOSE i \in 1..Len(recs) :
            /\ \A j \in 1..Len(recs) :
                  TimeOf(EffectiveDate(recs[j])) >= TimeOf(EffectiveDate(recs[i]))
            /\ \A j \in 1..(i - 1) :
                  TimeOf(EffectiveDate(recs[j])) > TimeOf(EffectiveDate(recs[i]))]

\* recs.sort((a, b) => time(b) - time(a))[0] for a non-empty recs: the sort
\* is stable, so [0] is the first of the records with the greatest time.
SortedFirst(recs) ==
    recs[CHOOSE i \in 1..Len(recs) :
            /\ \A j \in 1..Len(recs) :
                  TimeOf(EffectiveDate(recs[j])) <= TimeOf(EffectiveDate(recs[i]))
            /\ \A j \in 1..(i - 1) :
                  TimeOf(EffectiveDate(recs[j])) < TimeOf(EffectiveDate(recs[i]))]

\* What a sub-fetch of the listing gave: the records, or a failure.
Fetched(items) == [ok |-> TRUE, items |-> items]
FetchFailed == [ok |-> FALSE, items |-> <<>>]

Absent == "undefined"

\* The summary fields before any sub-fetch has filled them.
NoFields ==
    [last_bmi |-> JsUndefined, last_bmi_status |-> Absent, last_vitals_date |-> Absent,
     last_assessment_date |-> Absent, last_assessment_type |-> Absent]

\* The first PatientListing: getBmiStatus(patient.last_bmi || 0).
FirstBmiStatus(n) ==
    IF Falsy(n) THEN getBmiStatus(0)
    ELSE IF n.k = "Infinity" THEN "Overweight"
    ELSE getBmiStatus(n.v)

\* The first PatientListing, the vitals of a patient: the newest record's
\* bmi (parseFloat of a string, the value itself otherwise), its status and
\* its date.
FirstVitalsFields(f, vitals) ==
    IF vitals = <<>> THEN f
    ELSE [f EXCEPT !.last_bmi = SortedFirst(vitals).bmi.n,
                   !.last_bmi_status = FirstBmiStatus(SortedFirst(vitals).bmi.n),
                   !.last_vitals_date = EffectiveDate(SortedFirst(vitals))]

AssessmentFields(f, rec, type) ==
    [f EXCEPT !.last_assessment_date = EffectiveDate(rec),
              !.last_assessment_type = type]

\* The first PatientListing, one patient of the Promise.all: a failed
\* vitals fetch ends the enrichment; the General assessments are fetched
\* only when the Overweight fetch answered with no record; a failed
\* assessment fetch ends the assessment part.
FirstFields(vit, ow, gen) ==
    IF ~vit.ok THEN NoFields
    ELSE IF ~ow.ok THEN FirstVitalsFields(NoFields, vit.items)
    ELSE IF ow.items # <<>>
         THEN AssessmentFields(FirstVitalsFields(NoFields, vit.items),
                               SortedFirst(ow.items), "Overweight")
    ELSE IF gen.ok /\ gen.items # <<>>
         THEN AssessmentFields(FirstVitalsFields(NoFields, vit.items),
                               SortedFirst(gen.items), "General")
    ELSE FirstVitalsFields(NoFields, vit.items)

\* The second PatientListing: parseBmiValue.
parseBmiValue(bmi) ==
    IF bmi.t \in {"null", "undefined"} THEN JsUndefined
    ELSE IF bmi.n.k # "finite" THEN JsUndefined
    ELSE bmi.n

\* The second PatientListing: lastBmi ? getBmiStatus(lastBmi) : 'No Data'.
SecondBmiStatus(n) == IF Falsy(n) THEN "No Data" ELSE getBmiStatus(n.v)

\* Each record with its kind, as fetchPatientAssessments pushes them.
Typed(recs, type) ==
    [i \in 1..Len(recs) |->
        [visit_date |-> recs[i].visit_date, created_at |-> recs[i].created_at,
         type |-> type]]

\* The second PatientListing: fetchPatientAssessments after allSettled.
SecondAssessments(ow, gen) ==
    (IF ow.ok THEN Typed(ow.items, "overweight") ELSE <<>>)
    \o (IF gen.ok THEN Typed(gen.items, "general") ELSE <<>>)

\* The second PatientListing: processPatientData after its Promise.all.
SecondFields(vit, ow, gen) ==
    LET withVitals ==
            IF vit.ok /\ vit.items # <<>>
            THEN [NoFields EXCEPT
                     !.last_bmi = parseBmiValue(SortedFirst(vit.items).bmi),
                     !.last_bmi_status =
                         SecondBmiStatus(parseBmiValue(SortedFirst(vit.items).bmi)),
                     !.last_vitals_date = EffectiveDate(SortedFirst(vit.items))]
            ELSE [NoFields EXCEPT !.last_bmi_status = "No Data"]
        all == SecondAssessments(ow, gen)
    IN  IF all = <<>> THEN withVitals
        ELSE AssessmentFields(withVitals, SortedFirst(all),
                 IF SortedFirst(all).type = "overweight"
                 THEN "Overweight Assessment" ELSE "General Assessment")

SummaryFields(build, vit, ow, gen) ==
    IF build = "first" THEN FirstFields(vit, ow, gen) ELSE SecondFields(vit, ow, gen)

\* PatientDetails.fetchPatientDetails with every fetch answered:
\* latestVitals and allAssessments[0].
DetailsFields(vitals, ow, gen) ==
    LET all == Typed(ow, "overweight") \o Typed(gen, "general")
        withVitals ==
            IF vitals = <<>> THEN NoFields
            ELSE [NoFields EXCEPT !.last_bmi = SortedFirst(vitals).bmi.n,
                                  !.last_vitals_date = EffectiveDate(SortedFirst(vitals))]
    IN  IF all = <<>> THEN withVitals
        ELSE AssessmentFields(withVitals, SortedFirst(all), SortedFirst(all).type)


(***************************************************************************)
(* One patient's records and the summaries made of them.                   *)
(***************************************************************************)
VitalsRecords ==
    { [visit_date |-> Yesterday, created_at |-> YesterdayMorning, bmi |-> BmiNumber(243)],
      [visit_date |-> NoDate, created_at |-> TodayMorning, bmi |-> BmiString(JsFinite(273))],
      [visit_date |-> Today, created_at |-> TodayMorning, bmi |-> BmiNumber(0)],
      [visit_date |-> Today, created_at |-> TodayMorning, bmi |-> BmiString(JsNaN)],
      [visit_date |-> Today, created_at |-> TodayMorning, bmi |-> BmiString(JsInfinity)],
      [visit_date |-> Tomorrow, created_at |-> TodayMorning, bmi |-> BmiNull],
      [visit_date |-> Tomorrow, created_at |-> TodayMorning, bmi |-> BmiMissing] }

AssessmentRecords ==
    { [visit_date |-> Yesterday, created_at |-> YesterdayMorning],
      [visit_date |-> NoDate, created_at |-> TodayMorning] }

SeqsUpTo(S, n) == UNION { [1..k -> S] : k \in 0..n }

Patient(id, named, created, vitals, ow, gen) ==
    [id |-> id, named |-> named, created_at |-> created,
     vitals |-> vitals, overweight |-> ow, general |-> gen]

LatestInit ==
    /\ FlowInit /\ vitalsBuild = "part_004" /\ NormIdle /\ BmiIdle
    /\ listingBuild = "first"
    /\ \E v \in SeqsUpTo(VitalsRecords, MaxItems),
          o \in SeqsUpTo(AssessmentRecords, MaxItems),
          g \in SeqsUpTo(AssessmentRecords, MaxItems) :
          patientsDb = <<Patient(1, TRUE, YesterdayMorning, v, o, g)>>
    /\ fetches = <<>>
    /\ failures = 0
    /\ listing = <<>>
    /\ previous = <<>>
    /\ details = <<>>
    /\ building = FALSE
    /\ built = 0

\* The listing page is opened: every fetch answers.
SummariseAll(b) ==
    /\ listing = <<>>
    /\ listingBuild' = b
    /\ listing' = [i \in 1..Len(patientsDb) |->
                      SummaryFields(b, Fetched(patientsDb[i].vitals),
                                    Fetched(patientsDb[i].overweight),
                                    Fetched(patientsDb[i].general))]
    /\ built' = built + 1
    /\ UNCHANGED <<flowVars, sideVars, normVars, bmiVars, patientsDb, fetches, failures, previous, details,
                   building>>

\* The details page of the patient is opened: every fetch answers.
ShowDetails ==
    /\ details = <<>>
    /\ details' = [i \in 1..Len(patientsDb) |->
                      DetailsFields(patientsDb[i].vitals, patientsDb[i].overweight,
                                    patientsDb[i].general)]
    /\ UNCHANGED <<flowVars, sideVars, normVars, bmiVars, listingBuild, patientsDb, fetches, failures,
                   listing, previous, building, built>>

LatestNext ==
    \/ \E b \in ListingBuilds : SummariseAll(b)
    \/ ShowDetails

SpecLatest == LatestInit /\ [][LatestNext]_vars

TheVitals == patientsDb[1].vitals
TheOverweight == patientsDb[1].overweight
TheGeneral == patientsDb[1].general

IsNewestOf(r, recs) ==
    \A j \in 1..Len(recs) : TimeOf(EffectiveDate(r)) >= TimeOf(EffectiveDate(recs[j]))

\* The bmi a page keeps of a vitals record.
KeptBmi(page, bmi) == IF page = "second" THEN parseBmiValue(bmi) ELSE bmi.n

\* The records of the kind a reported assessment type names.
RecordsOfType(type) ==
    IF type \in {"Overweight", "Overweight Assessment", "overweight"}
    THEN TheOverweight ELSE TheGeneral

LatestOfEachKind(page, f) ==
    /\ TheVitals # <<>> =>
          \E i \in 1..Len(TheVitals) :
              /\ IsNewestOf(TheVitals[i], TheVitals)
              /\ f.last_vitals_date = EffectiveDate(TheVitals[i])
              /\ f.last_bmi = KeptBmi(page, TheVitals[i].bmi)
    /\ f.last_assessment_type # Absent =>
          \E i \in 1..Len(RecordsOfType(f.last_assessment_type)) :
              /\ IsNewestOf(RecordsOfType(f.last_assessment_type)[i],
                            RecordsOfType(f.last_assessment_type))
              /\ f.last_assessment_date =
                     EffectiveDate(RecordsOfType(f.last_assessment_type)[i])

NewestTime(recs) == TimeOf(EffectiveDate(SortedFirst(recs)))

OverweightTypes == {"Overweight", "Overweight Assessment"}
GeneralTypes == {"General", "General Assessment"}

\* C14: for a patient with assessments of both kinds the listing reports the
\* date of the newest assessment of either kind, with type General when the
\* newest General assessment is the later one and type Overweight when the
\* newest Overweight assessment is the later one.
C14_NewestAcrossKinds ==
    (listing # <<>> /\ TheOverweight # <<>> /\ TheGeneral # <<>>) =>
        /\ listing[1].last_assessment_date # Absent
        /\ TimeOf(listing[1].last_assessment_date) >= NewestTime(TheOverweight)
        /\ TimeOf(listing[1].last_assessment_date) >= NewestTime(TheGeneral)
        /\ NewestTime(TheGeneral) > NewestTime(TheOverweight) =>
               listing[1].last_assessment_type \in GeneralTypes
        /\ NewestTime(TheOverweight) > NewestTime(TheGeneral) =>
               listing[1].last_assessment_type \in OverweightTypes

\* A bmi field that is missing, not a number, not finite, or zero.
InvalidBmi(bmi) ==
    \/ bmi.t \in {"null", "undefined"}
    \/ bmi.n.k # "finite"
    \/ bmi.n.v = 0

CategoryLabels == {"Underweight", "Normal", "Overweight"}

\* C19: when the BMI of the newest vitals record is missing, unparseable,
\* not finite or zero, the summary holds no BMI value and its status is
\* none of the three category labels.
C19_InvalidBmiNotClassified ==
    (listing # <<>> /\ TheVitals # <<>> /\ InvalidBmi(SortedFirst(TheVitals).bmi)) =>
        /\ listing[1].last_bmi_status \notin CategoryLabels
        /\ listing[1].last_bmi.k \in {"undefined", "null"}


(***************************************************************************)
(* PatientListing.fetchPatients, fetch by fetch: the patients of the       *)
(* backend, the sub-fetches of each in flight, their answers in any order, *)
(* and the list the page ends up with.                                     *)
(***************************************************************************)
MaxFailures == 1
MaxBuilds == 2

FetchKinds == {"vitals", "overweight", "general"}

OlderVitals == [visit_date |-> Yesterday, created_at |-> YesterdayMorning, bmi |-> BmiNumber(243)]
NewerVitals == [visit_date |-> NoDate, created_at |-> TodayMorning, bmi |-> BmiString(JsFinite(273))]
OlderAssessment == [visit_date |-> Yesterday, created_at |-> YesterdayMorning]
NewerAssessment == [visit_date |-> NoDate, created_at |-> TodayMorning]

\* What GET /patients answers with: two patients, the second with or
\* without a name and registered before or after the first.
ListingBackends ==
    { << Patient(1, TRUE, YesterdayMorning, <<OlderVitals>>, <<OlderAssessment>>,
                 <<NewerAssessment>>),
         Patient(2, named, created, <<NewerVitals>>, <<>>, <<OlderAssessment>>) >> :
      named \in BOOLEAN, created \in {YesterdayMorning, TodayMorning} }

ListingInit ==
    /\ FlowInit /\ vitalsBuild = "part_004" /\ NormIdle /\ BmiIdle
    /\ listingBuild \in ListingBuilds
    /\ patientsDb \in ListingBackends
    /\ fetches = <<>>
    /\ failures = 0
    /\ listing = <<>>
    /\ previous = <<>>
    /\ details = <<>>
    /\ building = FALSE
    /\ built = 0

\* The requests a patient's enrichment issues at once: the first version
\* awaits the vitals before anything else, the second issues all three.
IssuedAtStart(b) ==
    IF b = "first"
    THEN [vitals |-> "pending", overweight |-> "idle", general |-> "idle"]
    ELSE [vitals |-> "pending", overweight |-> "pending", general |-> "pending"]

\* fetchPatients up to the Promise.all: GET /patients has answered.
StartBuild ==
    /\ ~building
    /\ built < MaxBuilds
    /\ building' = TRUE
    /\ fetches' = [status |-> [i \in 1..Len(patientsDb) |-> IssuedAtStart(listingBuild)],
                   arrived |-> <<>>]
    /\ UNCHANGED <<flowVars, sideVars, normVars, bmiVars, listingBuild, patientsDb, failures, listing,
                   previous, details, built>>

\* The request the first version issues once this one has answered.
IssuedNext(b, st, i, kind, ok) ==
    IF b = "first" /\ ok /\ kind = "vitals"
    THEN [st EXCEPT !.overweight = "pending"]
    ELSE IF b = "first" /\ ok /\ kind = "overweight" /\ patientsDb[i].overweight = <<>>
    THEN [st EXCEPT !.general = "pending"]
    ELSE st

\* One sub-fetch of one patient answers or fails.
CompleteFetch(i, kind, ok) ==
    /\ building
    /\ fetches.status[i][kind] = "pending"
    /\ ok \/ failures < MaxFailures
    /\ failures' = IF ok THEN failures ELSE failures + 1
    /\ fetches' = [fetches EXCEPT !.status[i] =
                      IssuedNext(listingBuild,
                                 [@ EXCEPT ![kind] = IF ok THEN "ok" ELSE "failed"],
                                 i, kind, ok)]
    /\ UNCHANGED <<flowVars, sideVars, normVars, bmiVars, listingBuild, patientsDb, listing, previous,
                   details, building, built>>

\* The enrichment of one patient returns: none of its requests is open.
PatientSettles(i) ==
    /\ building
    /\ \A kind \in FetchKinds : fetches.status[i][kind] # "pending"
    /\ \A k \in 1..Len(fetches.arrived) : fetches.arrived[k] # i
    /\ fetches' = [fetches EXCEPT !.arrived = Append(@, i)]
    /\ UNCHANGED <<flowVars, sideVars, normVars, bmiVars, listingBuild, patientsDb, failures, listing,
                   previous, details, building, built>>

ResultOf(status, items) == IF status = "ok" THEN Fetched(items) ELSE FetchFailed

\* The summary of patient p for the given answers.
Summary(b, p, st) ==
    [id |-> p.id, named |-> p.named, created_at |-> p.created_at,
     fields |-> SummaryFields(b, ResultOf(st.vitals, p.vitals),
                              ResultOf(st.overweight, p.overweight),
                              ResultOf(st.general, p.general))]

\* A fan-in that takes the summaries as they arrive.
FanInByArrival(arrived, sums) == [k \in 1..Len(arrived) |-> sums[arrived[k]]]

\* await Promise.all(...): the summaries by the index of their patient.
FanIn(arrived, sums) == [i \in 1..Len(sums) |-> sums[i]]

\* s is newest first; x goes behind every element that is not older.
InsertByCreated(s, x) ==
    LET behind == { k \in 1..Len(s) : getDateValue(s[k].created_at) >= getDateValue(x.created_at) }
    IN  [k \in 1..(Len(s) + 1) |->
            IF k <= Cardinality(behind) THEN s[k]
            ELSE IF k = Cardinality(behind) + 1 THEN x
            ELSE s[k - 1]]

RECURSIVE SortNewestFirst(_)
\* validPatients.sort((a, b) => dateB - dateA): stable, newest first.
SortNewestFirst(s) ==
    IF s = <<>> THEN <<>>
    ELSE InsertByCreated(SortNewestFirst(SubSeq(s, 1, Len(s) - 1)), s[Len(s)])

HasName(p) == p.named

\* What setPatients receives: the first version passes the Promise.all
\* result on, the second drops the nameless and sorts by created_at.
Produce(b, sums) ==
    IF b = "first" THEN sums ELSE SortNewestFirst(SelectSeq(sums, HasName))

\* Promise.all has resolved: setPatients.
FinishBuild ==
    /\ building
    /\ Len(fetches.arrived) = Len(patientsDb)
    /\ building' = FALSE
    /\ built' = built + 1
    /\ previous' = listing
    /\ listing' = Produce(listingBuild,
                      FanIn(fetches.arrived,
                            [i \in 1..Len(patientsDb) |->
                                Summary(listingBuild, patientsDb[i], fetches.status[i])]))
    /\ UNCHANGED <<flowVars, sideVars, normVars, bmiVars, listingBuild, patientsDb, fetches, failures, details>>

ListingNext ==
    \/ StartBuild
    \/ \E i \in 1..Len(patientsDb), kind \in FetchKinds, ok \in BOOLEAN :
           CompleteFetch(i, kind, ok)
    \/ \E i \in 1..Len(patientsDb) : PatientSettles(i)
    \/ FinishBuild

SpecListing == ListingInit /\ [][ListingNext]_vars


\* The sub-fetches of the build just finished that failed.
FailedFetches ==
    { f \in (1..Len(patientsDb)) \X FetchKinds : fetches.status[f[1]][f[2]] = "failed" }

AllAnswered == [vitals |-> "ok", overweight |-> "ok", general |-> "ok"]

\* The list the page would hold had every sub-fetch answered.
Unfailed ==
    Produce(listingBuild,
            [i \in 1..Len(patientsDb) |-> Summary(listingBuild, patientsDb[i], AllAnswered)])

VitalsPart(f) == <<f.last_bmi, f.last_bmi_status, f.last_vitals_date>>
AssessmentPart(f) == <<f.last_assessment_date, f.last_assessment_type>>

VitalsAbsent(f) ==
    /\ f.last_bmi = JsUndefined
    /\ f.last_bmi_status \in {Absent, "No Data"}
    /\ f.last_vitals_date = Absent

\* The assessment fields of patient p when the records of one kind are
\* left out.
AssessmentPartWithout(p, kind) ==
    AssessmentPart(SummaryFields(listingBuild, Fetched(p.vitals),
                       Fetched(IF kind = "overweight" THEN <<>> ELSE p.overweight),
                       Fetched(IF kind = "general" THEN <<>> ELSE p.general)))

\* C12: when one sub-fetch of one patient fails the listing is still
\* produced; every other patient's summary is what it would be without the
\* failure; the patient's own summary lacks the fields of the failed
\* sub-resource (assessment fields may come from the other kind alone) and
\* keeps the other fields as without the failure.
C12_FailureIsolated ==
    (built >= 1 /\ ~building /\ Cardinality(FailedFetches) = 1) =>
        LET f == CHOOSE x \in FailedFetches : TRUE
            p == patientsDb[f[1]]
        IN  /\ Len(listing) = Len(Unfailed)
            /\ \A k \in 1..Len(listing) :
                  /\ listing[k].id = Unfailed[k].id
                  /\ listing[k].id # p.id => listing[k] = Unfailed[k]
                  /\ (listing[k].id = p.id /\ f[2] = "vitals") =>
                        /\ VitalsAbsent(listing[k].fields)
                        /\ AssessmentPart(listing[k].fields) = AssessmentPart(Unfailed[k].fields)
                  /\ (listing[k].id = p.id /\ f[2] # "vitals") =>
                        /\ VitalsPart(listing[k].fields) = VitalsPart(Unfailed[k].fields)
                        /\ AssessmentPart(listing[k].fields) \in
                              {<<Absent, Absent>>, AssessmentPartWithout(p, f[2])}

\* C13: the list the page holds after a build has the length of the
\* backend's patient list and the same patients at the same positions.
C13_SameOrderAsBackend ==
    (built >= 1 /\ ~building) =>
        /\ Len(listing) = Len(patientsDb)
        /\ \A k \in 1..Len(listing) : listing[k].id = patientsDb[k].id

BmiHeights == 150..200
BmiWeights == MinWeight..MaxWeight

BmiInit ==
    /\ FlowInit /\ NormIdle /\ ListIdle
    /\ measured \in BmiHeights \X BmiWeights
    /\ computed = NotComputed

\* handleInputChange with both fields filled: calculateBMI and its status.
Calculate ==
    /\ computed = NotComputed
    /\ computed' = [bmi |-> calculateBMI(measured[1], measured[2]),
                    status |-> getBmiStatus(calculateBMI(measured[1], measured[2]))]
    /\ UNCHANGED <<flowVars, sideVars, normVars, listVars, measured>>

BmiNext == Calculate

SpecBmi == BmiInit /\ [][BmiNext]_vars

Rank(status) ==
    CASE status = "Underweight" -> 1
      [] status = "Normal" -> 2
      [] status = "Overweight" -> 3
      [] OTHER -> 0

\* C17: the status of a computed BMI is exactly one of Underweight, Normal
\* and Overweight, decided by the rounded value (below 18.5, from 18.5 to
\* below 25, from 25), and a value that is not greater never has a higher
\* category.
C17_TotalAndMonotonic ==
    computed # NotComputed =>
        /\ computed.status \in CategoryLabels
        /\ computed.status = "Underweight" <=> computed.bmi < 185
        /\ computed.status = "Normal" <=> (185 <= computed.bmi /\ computed.bmi < 250)
        /\ computed.status = "Overweight" <=> computed.bmi >= 250
        /\ \A v \in SweepBmis :
              /\ v <= computed.bmi => Rank(getBmiStatus(v)) <= Rank(computed.status)
              /\ computed.bmi <= v => Rank(computed.status) <= Rank(getBmiStatus(v))

C17_Witness ==
    /\ measured = <<200, 1000>>
    /\ computed = [bmi |-> 250, status |-> "Overweight"]

\* weight / (height/100)^2 in tenths, rounded half up, in integers.
ScaledReference(h, w) == (2 * w * 10000 + h * h) \div (2 * h * h)

\* C18: the computed BMI is weight / (height/100)^2 rounded to one decimal
\* as the scaled-integer reference gives it, the status is the category of
\* that value, and (170, 70.2), (160, 70) and (180, 55) give 24.3 Normal,
\* 27.3 Overweight and 17.0 Underweight.
C18_EqualsScaledReference ==
    computed # NotComputed =>
        /\ computed.bmi = ScaledReference(measured[1], measured[2])
        /\ computed.status = getBmiStatus(ScaledReference(measured[1], measured[2]))
        /\ measured = <<170, 702>> => computed = [bmi |-> 243, status |-> "Normal"]
        /\ measured = <<160, 700>> => computed = [bmi |-> 273, status |-> "Overweight"]
        /\ measured = <<180, 550>> => computed = [bmi |-> 170, status |-> "Underweight"]


(***************************************************************************)
(* A create request that fails (Spec).                                     *)
(***************************************************************************)
\* A step in which the request c of the form on screen ends, neither
\* abandoned by a page left nor stored as a record.
CreateFailed(c) ==
    /\ c \in creates /\ c.live
    /\ c \notin creates'
    /\ [c EXCEPT !.live = FALSE] \notin creates'
    /\ UNCHANGED dbVars

AbandonedCompletes(c) ==
    /\ c \in creates /\ ~c.live
    /\ c \notin creates'

\* C21: when a request of a form the user has left completes, with success
\* or with failure, the page on screen, its state and its messages stay as
\* they are and no request is issued.
C21_AbandonedCompletionUnseen ==
    [][\A c \in creates :
          AbandonedCompletes(c) =>
              /\ route' = route /\ nav' = nav
              /\ error' = error
              /\ creates' \subseteq creates]_vars


(***************************************************************************)
(* The assessment forms of a patient with two earlier visits, entered      *)
(* through the history entries the vitals form left.                       *)
(***************************************************************************)
VisitsInit ==
    /\ PagesInit /\ dbVitals = EarlierVisits
    /\ NormIdle /\ ListIdle /\ BmiIdle

VisitsNext ==
    \/ \E i \in 1..MaxRecords : ReEnterAssessment(i)
    \/ \E env \in FlowEnvelopes : FetchAssessmentsOk(env)
    \/ FetchAssessmentsFail
    \/ \E d \in Dates, a \in BOOLEAN : SubmitAssessment(d, a)
    \/ \E c \in creates : CreateAssessmentOk(c)
    \/ \E c \in creates : CreateAssessmentFail(c)
    \/ LeaveForm

SpecVisits == VisitsInit /\ [][VisitsNext]_vars

\* C22: the backend never holds a General and an Overweight assessment of
\* the patient for one visit date.
C22_VariantsExclusivePerDate ==
    \A i \in 1..Len(dbGeneral), j \in 1..Len(dbOverweight) :
        dbGeneral[i].visit_date # dbOverweight[j].visit_date


(***************************************************************************)
(* Two sessions writing one date (Spec): the session left with its request *)
(* in flight, and the session opened after it.                             *)
(***************************************************************************)
\* C23: a submission whose date is not in the form's own existing-dates
\* set, with valid fields, issues its create request whatever the backend
\* holds and whatever is in flight: a second session that loaded its dates
\* before the first one's record was stored writes the same date.
C23_NoLockAgainstSecondWrite ==
    [][\A d \in {Yesterday, Today}, m \in Measurements :
          (SubmitVitals(d, m[1], m[2]) /\ m[1] # 0 /\ d \notin existingDates) =>
              VitalsRequest(d, m[1], m[2]) \in creates']_vars

C23_Witness ==
    /\ route = "vitals" /\ fetch = "done" /\ existingDates = {}
    /\ dbVitals = <<>>
    /\ \E c1 \in Pending("Vitals"), c2 \in Pending("Vitals") :
          /\ ~c1.live /\ c2.live
          /\ c1.visit_date = c2.visit_date
          /\ c2.visit_date = Today


(***************************************************************************)
(* One category everywhere (SpecRoute): the BMI a vitals write hands to    *)
(* the assessment form, read by every place that labels it.                *)
(***************************************************************************)
\* Below 18.5, 18.5 up to 25, 25 and more, in tenths.
ThresholdCategory(bmi) ==
    IF bmi < 185 THEN "Underweight" ELSE IF bmi < 250 THEN "Normal" ELSE "Overweight"

\* C24: for the BMI handed to an assessment form, the label of the vitals
\* form, the route chosen, the status string passed on, the two gates and
\* the statuses of the listings and the details view all yield the category
\* of the thresholds 18.5 and 25.0.
C24_EveryPlaceSameCategory ==
    route \in AssessmentRoutes /\ ~NoContext(nav) =>
        LET bmi == nav.bmi
            over == ThresholdCategory(bmi) = "Overweight"
        IN  /\ getBmiStatus(bmi) = ThresholdCategory(bmi)
            /\ (NextRoute(bmi) = "overweight") <=> over
            /\ \A b \in Builds : (NavBmiStatus(b, bmi) = "Overweight") <=> over
            /\ GeneralDenied(nav) <=> over
            /\ OverweightDenied(nav) <=> ~over
            /\ FirstBmiStatus(JsFinite(bmi)) = ThresholdCategory(bmi)
            /\ SecondBmiStatus(JsFinite(bmi)) = ThresholdCategory(bmi)


(***************************************************************************)
(* One list from every reader (SpecExtract).                               *)
(***************************************************************************)
\* The five shapes of a list l: bare, under results, under data, under
\* another key, and under a key of an object under a key.
ShapesOf(l) ==
    { JList(l),
      JObj(<<Field("results", JList(l))>>),
      JObj(<<Field("data", JList(l))>>),
      JObj(<<Field("items", JList(l))>>),
      JObj(<<Field("meta", JObj(<<Field("items", JList(l))>>))>>) }

\* C25: from a payload of one of the five shapes, the normalizer that ran
\* (the five-rule one of the vitals form, or the three-rule one of the
\* guards, the listing and the details view) returns the list the vitals
\* form's extractArrayFromResponse returns.
C25_EveryReaderSameList ==
    \A l \in Lists :
        extracted.by # "none" /\ payload \in ShapesOf(l) =>
            /\ ~extracted.raised
            /\ extracted.out = extractArrayFromResponse(payload)


(***************************************************************************)
(* A failed existing-dates request (Spec).                                 *)
(***************************************************************************)
\* C26: when the existing-dates request of the vitals form or of an
\* assessment form fails, no error is shown, the form stays where it is
\* with its fields and its submit control as they were, and the
\* existing-dates set is empty.
C26_DatesFetchFailureAbsorbed ==
    [][(fetch = "inflight" /\ fetch' = "failed") =>
          /\ error' = error
          /\ route' = route /\ nav' = nav
          /\ isSubmitting' = isSubmitting /\ formData' = formData
          /\ creates' = creates
          /\ existingDates' = {}]_vars

\* The vitals form was submitted after its existing-dates request failed.
C26_Witness ==
    /\ route = "vitals" /\ fetch = "failed"
    /\ existingDates = {} /\ error = {}
    /\ \E c \in Pending("Vitals") : c.live /\ c.visit_date = Yesterday


(***************************************************************************)
(* The patient lookup of the vitals form of part_004 (SpecLookup): the     *)
(* backend's two answers are drawn, fetchRealPatientData resolves the      *)
(* UUID, and the form is submitted.                                        *)
(***************************************************************************)
\* The patient in location.state, and the patients the backend may list:
\* the same patient, a namesake, one whose first name contains "Ann", and
\* one who shares nothing.
LocationPatient ==
    [id |-> "uuid-1", patient_id |-> "P001", first_name |-> "Ann", last_name |-> "Lee"]

Namesake ==
    [id |-> "uuid-2", patient_id |-> "P002", first_name |-> "Ann", last_name |-> "Lee"]

PartialNamesake ==
    [id |-> "uuid-3", patient_id |-> "P003", first_name |-> "MaryAnn", last_name |-> "Ray"]

Stranger ==
    [id |-> "uuid-4", patient_id |-> "P004", first_name |-> "Bob", last_name |-> "Ray"]

Directory == {LocationPatient, Namesake, PartialNamesake, Stranger}

isValidUUID(str) == str \in {"uuid-1", "uuid-2", "uuid-3", "uuid-4"}

\* String.prototype.includes on the names of the directory.
Includes(str, part) == str = part \/ <<str, part>> = <<"MaryAnn", "Ann">>

\* A response: the request failed, or a list of up to two patients.
RequestFailed == [ok |-> FALSE, list |-> <<>>]
Answered(list) == [ok |-> TRUE, list |-> list]
PatientLists ==
    {<<>>} \cup {<<p>> : p \in Directory}
    \cup {pq \in Directory \X Directory : pq[1] # pq[2]}
Answers == {RequestFailed} \cup {Answered(l) : l \in PatientLists}

NoUUID == ""

\* Array.prototype.find: the first of the elements that pass, if any; hits
\* are their indices.
FindFirst(list, hits) ==
    IF hits = {} THEN <<>>
    ELSE <<list[CHOOSE i \in hits : \A j \in hits : i <= j]>>

\* The UUID taken from a patient found by the query or by an identifier.
UuidOf(p) ==
    IF isValidUUID(p.id) THEN p.id
    ELSE IF isValidUUID(p.patient_id) THEN p.patient_id
    ELSE NoUUID

\* The UUID taken from a patient found by name.
UuidByName(p) == IF isValidUUID(p.id) THEN p.id ELSE NoUUID

MatchesIdentifier(p) ==
    p.patient_id = LocationPatient.patient_id \/ p.id = LocationPatient.id

MatchesName(p) ==
    p.first_name = LocationPatient.first_name /\ p.last_name = LocationPatient.last_name

MatchesPartOfName(p) ==
    \/ Includes(p.first_name, LocationPatient.first_name)
    \/ Includes(p.last_name, LocationPatient.last_name)

\* The search in the full list: by identifier, then by name, then by part
\* of a name.
SearchAll(list) ==
    LET byId == FindFirst(list, {i \in 1..Len(list) : MatchesIdentifier(list[i])})
        byName == FindFirst(list, {i \in 1..Len(list) : MatchesName(list[i])})
        byPart == FindFirst(list, {i \in 1..Len(list) : MatchesPartOfName(list[i])})
    IN  IF byId # <<>> THEN [uuid |-> UuidOf(byId[1]), found |-> TRUE]
        ELSE IF byName # <<>> THEN [uuid |-> UuidByName(byName[1]), found |-> TRUE]
        ELSE IF byPart # <<>> THEN [uuid |-> UuidByName(byPart[1]), found |-> TRUE]
        ELSE [uuid |-> NoUUID, found |-> FALSE]

LookupInit ==
    /\ FlowIdle /\ dbVitals = <<>> /\ vitalsBuild = "part_004"
    /\ NormIdle /\ ListIdle /\ BmiIdle /\ ViewIdle /\ DatedIdle
    /\ patientsApi \in [query : Answers, all : Answers]
    /\ lookup = [phase |-> "query", uuid |-> NoUUID, error |-> FALSE, sent |-> {}]

\* getPatientByPatientId answers: a non-empty list gives its first patient.
QueryAnswered ==
    /\ lookup.phase = "query"
    /\ lookup' =
          IF patientsApi.query.ok /\ Len(patientsApi.query.list) > 0
          THEN [lookup EXCEPT !.phase = "ready",
                              !.uuid = UuidOf(patientsApi.query.list[1])]
          ELSE [lookup EXCEPT !.phase = "all"]
    /\ UNCHANGED <<flowVars, normVars, listVars, bmiVars, patientsApi, view, dated>>

\* getPatients answers: the search, or the error of the form.
ListAnswered ==
    /\ lookup.phase = "all"
    /\ lookup' =
          IF ~patientsApi.all.ok \/ Len(patientsApi.all.list) = 0
          THEN [lookup EXCEPT !.phase = "ready", !.error = TRUE]
          ELSE LET r == SearchAll(patientsApi.all.list)
               IN  [lookup EXCEPT !.phase = "ready", !.uuid = r.uuid,
                                  !.error = ~r.found]
    /\ UNCHANGED <<flowVars, normVars, listVars, bmiVars, patientsApi, view, dated>>

\* handleSubmit with valid fields: submissionData.patient_id is patientUUID.
SendCreate ==
    /\ lookup.phase = "ready"
    /\ isValidUUID(lookup.uuid)
    /\ lookup.sent = {}
    /\ lookup' = [lookup EXCEPT !.sent = {lookup.uuid}]
    /\ UNCHANGED <<flowVars, normVars, listVars, bmiVars, patientsApi, view, dated>>

LookupNext == QueryAnswered \/ ListAnswered \/ SendCreate

SpecLookup == LookupInit /\ [][LookupNext]_vars

\* C27: every create request of the vitals form carries the identifier of
\* the patient of the navigation state, whatever the backend answers to
\* the lookup.
C27_CreateCarriesThePatient ==
    \A id \in lookup.sent : id = LocationPatient.id


(***************************************************************************)
(* The date filter of the patient listing (SpecFilter): the list is        *)
(* loaded, the filter is set, changed and cleared, and the list is         *)
(* refreshed.                                                              *)
(***************************************************************************)
\* Patients as the listing holds them: one assessed today, one assessed
\* yesterday with vitals of today, one without records.
AssessedToday ==
    [patient_id |-> "P001", last_vitals_date |-> Today, last_assessment_date |-> Today]

AssessedYesterday ==
    [patient_id |-> "P002", last_vitals_date |-> Today,
     last_assessment_date |-> YesterdayMorning]

NoRecords ==
    [patient_id |-> "P003", last_vitals_date |-> NoDate, last_assessment_date |-> NoDate]

ListedPatients == {AssessedToday, AssessedYesterday, NoRecords}

\* What a fetch may load: up to three distinct patients.
LoadedLists ==
    {<<>>} \cup {<<p>> : p \in ListedPatients}
    \cup {pq \in ListedPatients \X ListedPatients : pq[1] # pq[2]}
    \cup {pqr \in ListedPatients \X ListedPatients \X ListedPatients :
             pqr[1] # pqr[2] /\ pqr[1] # pqr[3] /\ pqr[2] # pqr[3]}

FilterDates == {Yesterday, Today}

\* The first listing: the last vitals or the last assessment is of the day.
MatchesEitherDate(p, d) ==
    \/ p.last_vitals_date # NoDate /\ ToISODate(p.last_vitals_date) = d
    \/ p.last_assessment_date # NoDate /\ ToISODate(p.last_assessment_date) = d

\* The second listing: the last assessment is of the day.
MatchesAssessmentDate(p, d) ==
    p.last_assessment_date # NoDate /\ ToISODate(p.last_assessment_date) = d

Matches(build, p, d) ==
    IF build = "first" THEN MatchesEitherDate(p, d) ELSE MatchesAssessmentDate(p, d)

\* patients.filter(...) under the date filter; the whole list without one.
FilterBy(build, patients, d) ==
    IF d = NoDate THEN patients
    ELSE LET Keep(p) == Matches(build, p, d) IN SelectSeq(patients, Keep)

FilterInit ==
    /\ FlowIdle /\ dbVitals = <<>> /\ vitalsBuild = "part_004"
    /\ NormIdle /\ BmiIdle /\ LookupIdle /\ DatedIdle
    /\ listingBuild \in ListingBuilds
    /\ patientsDb = <<>> /\ fetches = <<>> /\ failures = 0 /\ listing = <<>>
    /\ previous = <<>> /\ details = <<>> /\ building = FALSE /\ built = 0
    /\ view = [NoView EXCEPT !.loading = TRUE]

FilterUnchanged ==
    UNCHANGED <<flowVars, normVars, listVars, bmiVars, lookupVars, dated>>

\* fetchPatients sets the list. The first listing's handleRefresh then
\* clears the filter, and its effect filters; the second listing sets
\* filteredPatients to the whole list.
PatientsLoaded(list) ==
    /\ view.loading
    /\ view' =
          IF listingBuild = "first"
          THEN LET d == IF view.refresh THEN NoDate ELSE view.filterDate
               IN  [patients |-> list, filteredPatients |-> FilterBy("first", list, d),
                    filterDate |-> d, loading |-> FALSE, refresh |-> FALSE]
          ELSE [view EXCEPT !.patients = list, !.filteredPatients = list,
                            !.loading = FALSE, !.refresh = FALSE]
    /\ FilterUnchanged

\* fetchPatients fails: the lists are as they were.
PatientsFailed ==
    /\ view.loading
    /\ view' =
          IF listingBuild = "first"
          THEN LET d == IF view.refresh THEN NoDate ELSE view.filterDate
               IN  [view EXCEPT !.filteredPatients = FilterBy("first", view.patients, d),
                                !.filterDate = d, !.loading = FALSE,
                                !.refresh = FALSE]
          ELSE [view EXCEPT !.loading = FALSE, !.refresh = FALSE]
    /\ FilterUnchanged

\* The date input changes: setDateFilter and the effect of the first
\* listing, handleFilterDateChange of the second.
ChangeFilterDate(d) ==
    /\ ~view.loading
    /\ view' = [view EXCEPT !.filterDate = d,
                            !.filteredPatients = FilterBy(listingBuild, view.patients, d)]
    /\ FilterUnchanged

\* clearFilters, handleClearFilters.
ClearFilters ==
    /\ ~view.loading
    /\ view' = [view EXCEPT !.filterDate = NoDate, !.filteredPatients = view.patients]
    /\ FilterUnchanged

\* handleRefresh, forceRefresh: fetchPatients runs again.
RefreshList ==
    /\ ~view.loading
    /\ view' = [view EXCEPT !.loading = TRUE, !.refresh = TRUE]
    /\ FilterUnchanged

FilterNext ==
    \/ \E list \in LoadedLists : PatientsLoaded(list)
    \/ PatientsFailed
    \/ \E d \in FilterDates \cup {NoDate} : ChangeFilterDate(d)
    \/ ClearFilters
    \/ RefreshList

SpecFilter == FilterInit /\ [][FilterNext]_vars

\* C28: whenever the listing is shown with a date filter set, the displayed
\* list is exactly the loaded patients that match the filter.
C28_FilteredListMatchesFilter ==
    ~view.loading /\ view.filterDate # NoDate =>
        view.filteredPatients = FilterBy(listingBuild, view.patients, view.filterDate)


(***************************************************************************)
(* The date guards on their own (SpecDates): a list of fetched records is  *)
(* drawn, and one of the three readers makes its existing-dates set of it. *)
(***************************************************************************)
FetchedRecords ==
    [visit_date : {Yesterday, YesterdayMorning, Today, NoDate, Unparseable},
     created_at : {TodayMorning, NoDate}]

DatedInit ==
    /\ FlowIdle /\ dbVitals = <<>> /\ vitalsBuild = "part_004"
    /\ NormIdle /\ ListIdle /\ BmiIdle /\ LookupIdle /\ ViewIdle
    /\ dated \in {[NotDated EXCEPT !.records = l] : l \in SeqsUpTo(FetchedRecords, MaxItems)}

DatedUnchanged ==
    UNCHANGED <<flowVars, normVars, listVars, bmiVars, lookupVars, view>>

\* part_004 fetchVitals: a throw leaves existingDates at its initial [].
ReadByVitalsPart004 ==
    /\ dated.by = "none"
    /\ dated' =
          IF VitalsDatesPart004Raises(dated.records)
          THEN [dated EXCEPT !.by = "part_004", !.raised = TRUE]
          ELSE [dated EXCEPT !.by = "part_004",
                             !.dates = VitalsDatesPart004(dated.records)]
    /\ DatedUnchanged

\* VitalsForm.tsx fetchExistingVitals.
ReadByVitalsTsx ==
    /\ dated.by = "none"
    /\ dated' = [dated EXCEPT !.by = "VitalsForm.tsx",
                              !.dates = VitalsDatesTsx(dated.records)]
    /\ DatedUnchanged

\* fetchExistingAssessments of the assessment forms.
ReadByAssessmentForm ==
    /\ dated.by = "none"
    /\ dated' = [dated EXCEPT !.by = "assessment",
                              !.dates = AssessmentDates(dated.records)]
    /\ DatedUnchanged

DatedNext == ReadByVitalsPart004 \/ ReadByVitalsTsx \/ ReadByAssessmentForm

SpecDates == DatedInit /\ [][DatedNext]_vars

\* C29: the existing-dates set a reader makes of the fetched records holds
\* the calendar date of every record whose visit date is parseable,
\* whatever the visit dates of the other records.
C29_ParseableDatesKept ==
    dated.by # "none" =>
        \A i \in 1..Len(dated.records) :
            ~isInvalidDate(dated.records[i].visit_date) =>
                ToISODate(dated.records[i].visit_date) \in dated.dates


(***************************************************************************)
(* One create at a time (Spec).                                            *)
(***************************************************************************)
\* The create requests of the form on screen.
OwnCreates == {c \in creates : c.live}

\* C30: the form on screen has at most one create request in flight, its
\* submit control is disabled while it has one, and is enabled again once
\* it has none.
C30_OneCreateInFlightPerForm ==
    /\ Cardinality(OwnCreates) <= 1
    /\ OwnCreates # {} => isSubmitting
    /\ (route # "listing" /\ fetch # "lookup" /\ OwnCreates = {}) => ~isSubmitting

\* The create of the vitals form has failed, and the form can be submitted
\* again.
C30_Witness ==
    /\ route = "vitals" /\ formData # NoEntries
    /\ error = {"save_failed"}
    /\ OwnCreates = {} /\ ~isSubmitting
    /\ \E d \in Dates, m \in Measurements : ENABLED SubmitVitals(d, m[1], m[2])

=============================================================================
